---- MODULE Spec2Model ----
(***************************************************************************)
(* Model of the category-ordering core of the alluvial / parallel map:     *)
(*   src/viz/preprocess.js  label normalisation, aggregation, initial      *)
(*                          per-axis category order, nodes                 *)
(*   src/viz/ordering.js    barycentric crossing reduction                 *)
(*   src/viz/render.js      the per-row geometry lookup of initViz         *)
(*                                                                         *)
(* A JavaScript string is a sequence of symbols.  A symbol is either a     *)
(* single character ("D", "7", ":", " ") or a word ("Sight", "Missing",    *)
(* "Design-Concept") standing for a run of letters that holds no digit,    *)
(* no whitespace and no colon; nothing in the code looks inside such a     *)
(* run.                                                                    *)
(***************************************************************************)
EXTENDS Integers, Sequences, FiniteSets, TLC

VARIABLES
  pc,        \* control position of the program
  axes,      \* preprocess argument: the axis names
  rows,      \* preprocess argument: one sequence of raw values per row
  axisInfo,  \* per axis: [axis, index, categories, totalsByCategory]
  linkAgg,   \* aggregated links, in Map insertion order
  opts,      \* reduceCrossings options
  pairLinks, \* ordering.js: per adjacent pair, the accumulated weights
  pos,       \* ordering.js: per axis, label -> position
  it,        \* ordering.js: iteration counter of the sweep loop
  i,         \* ordering.js: axis position of the running sweep
  cats0,     \* history: every axis's categories when reduceCrossings was called
  nodes,     \* preprocess result
  rowPaths,  \* render.js: per row and axis, the key looked up in geo (or null)
  rawIn,     \* normaliser under test: the raw value
  axisIn,    \* normaliser under test: the axis name
  labelOut,  \* normaliser under test: the label produced
  prior,     \* history: what the previous call of preprocess on these rows returned
  ends       \* history: every axis's categories at the end of each iteration so far

vars == <<pc, axes, rows, axisInfo, linkAgg, opts, pairLinks, pos, it, i,
          cats0, nodes, rowPaths, rawIn, axisIn, labelOut, prior, ends>>

\* ------------------------------------------------------------------------
\* Bound of the normaliser specification: the length of the raw value
\* ------------------------------------------------------------------------
MaxLen == 4

\* ------------------------------------------------------------------------
\* Strings
\* ------------------------------------------------------------------------
Digits == <<"0", "1", "2", "3", "4", "5", "6", "7", "8", "9">>

IsDigit(c) == \E k \in 1..10 : Digits[k] = c

DigitVal(c) == (CHOOSE k \in 1..10 : Digits[k] = c) - 1

\* String.prototype.trim's white space
IsSpace(c) == c \in {" ", "\t"}

RECURSIVE TrimStart(_)
TrimStart(s) ==
  IF s = <<>> THEN s
  ELSE IF IsSpace(Head(s)) THEN TrimStart(Tail(s)) ELSE s

RECURSIVE TrimEnd(_)
TrimEnd(s) ==
  IF s = <<>> THEN s
  ELSE IF IsSpace(s[Len(s)]) THEN TrimEnd(SubSeq(s, 1, Len(s) - 1)) ELSE s

\* String.prototype.trim
Trim(s) == TrimEnd(TrimStart(s))

\* the value undefined (a field the row does not have); no string equals it
UNDEFINED == <<"(undefined)">>

\* String(v ?? "")
StringOf(v) == IF v = UNDEFINED THEN <<>> ELSE v

\* Number(digits) on a non-empty run of decimal digits
RECURSIVE NumberOf(_)
NumberOf(ds) ==
  IF ds = <<>> THEN 0
  ELSE 10 * NumberOf(SubSeq(ds, 1, Len(ds) - 1)) + DigitVal(ds[Len(ds)])

\* `${n}` for an integer n >= 0
RECURSIVE NumToString(_)
NumToString(n) ==
  IF n < 10 THEN <<Digits[n + 1]>>
  ELSE NumToString(n \div 10) \o <<Digits[(n % 10) + 1]>>

AllDigits(s) == s # <<>> /\ \A k \in 1..Len(s) : IsDigit(s[k])

\* s.match(/^DC(\d+)$/i)
MatchDC(s) ==
  /\ Len(s) >= 3
  /\ s[1] \in {"D", "d"}
  /\ s[2] \in {"C", "c"}
  /\ AllDigits(SubSeq(s, 3, Len(s)))

\* s.match(/^C(\d+)$/i)
MatchC(s) ==
  /\ Len(s) >= 2
  /\ s[1] \in {"C", "c"}
  /\ AllDigits(SubSeq(s, 2, Len(s)))

DC(n) == <<"D", "C">> \o NumToString(n)

\* ------------------------------------------------------------------------
\* preprocess.js: label normalisation
\* ------------------------------------------------------------------------
CLUSTER == <<"Design-Concept">>

MISSING_LABEL == <<"Missing">>

\* the legacy rule with the 1-based range tested first
LegacyIndexOneBasedFirst(n) ==
  IF n >= 1 /\ n <= 6 THEN n
  ELSE IF n >= 0 /\ n <= 5 THEN n + 1
  ELSE n

\* the legacy rule that always adds one
LegacyIndexAlwaysPlusOne(n) == n + 1

\* the index of DC<index> for a legacy C<n>
LegacyIndex(n) ==
  IF n = 0 THEN 1
  ELSE IF n >= 0 /\ n <= 5 THEN n + 1
  ELSE IF n >= 1 /\ n <= 6 THEN n
  ELSE n

\* normConceptCluster that keeps the digits as written
normConceptClusterVerbatim(v) ==
  LET s == Trim(StringOf(v)) IN
  IF s = <<>> THEN <<>>
  ELSE IF MatchDC(s) THEN <<"D", "C">> \o SubSeq(s, 3, Len(s))
  ELSE IF MatchC(s) THEN DC(LegacyIndex(NumberOf(SubSeq(s, 2, Len(s)))))
  ELSE s

normConceptCluster(v) ==
  LET s == Trim(StringOf(v)) IN
  IF s = <<>> THEN <<>>
  ELSE IF MatchDC(s) THEN DC(NumberOf(SubSeq(s, 3, Len(s))))
  ELSE IF MatchC(s) THEN DC(LegacyIndex(NumberOf(SubSeq(s, 2, Len(s)))))
  ELSE s

normLabel(axis, raw) ==
  LET trimmed == Trim(StringOf(raw))
      label == IF axis = CLUSTER THEN normConceptCluster(trimmed) ELSE trimmed
  IN IF label = <<>> THEN MISSING_LABEL ELSE label

\* ------------------------------------------------------------------------
\* JavaScript Map (insertion ordered): a sequence of <<key, value>> pairs
\* ------------------------------------------------------------------------
MapHas(m, k) == \E x \in 1..Len(m) : m[x][1] = k

MapGet(m, k) == m[CHOOSE x \in 1..Len(m) : m[x][1] = k][2]

\* m.get(k) || 0
MapGetOr0(m, k) == IF MapHas(m, k) THEN MapGet(m, k) ELSE 0

\* m.set(k, v): an existing key keeps its place
MapSet(m, k, v) ==
  IF MapHas(m, k)
  THEN [x \in 1..Len(m) |-> IF m[x][1] = k THEN <<k, v>> ELSE m[x]]
  ELSE Append(m, <<k, v>>)

MapKeys(m) == [x \in 1..Len(m) |-> m[x][1]]

Includes(s, e) == \E x \in 1..Len(s) : s[x] = e

RECURSIVE Filter(_, _)
Filter(s, keep) ==
  IF s = <<>> THEN <<>>
  ELSE IF Head(s) \in keep THEN <<Head(s)>> \o Filter(Tail(s), keep)
  ELSE Filter(Tail(s), keep)

Elems(s) == {s[x] : x \in 1..Len(s)}

\* Array.prototype.sort with a consistent comparator: the stable sort.
\* cmp[<<a, b>>] is the sign of the comparator's result on (a, b).
SortBy(s, cmp) ==
  LET rank(k) == Cardinality({j \in 1..Len(s) : cmp[<<s[j], s[k]>>] < 0})
                 + Cardinality({j \in 1..(k - 1) : cmp[<<s[j], s[k]>>] = 0})
  IN [k \in 1..Len(s) |-> s[CHOOSE j \in 1..Len(s) : rank(j) = k - 1]]

Sign(n) == IF n < 0 THEN -1 ELSE IF n > 0 THEN 1 ELSE 0

\* ------------------------------------------------------------------------
\* Node ids
\* ------------------------------------------------------------------------
SEP == <<":", ":">>

\* preprocess.js nodeId: `${axis}::${label}`
nodeId(axis, label) == axis \o SEP \o label

\* s.indexOf("::"), 1-based; 0 when absent
IndexOfSep(s) ==
  IF \E k \in 1..(Len(s) - 1) : s[k] = ":" /\ s[k + 1] = ":"
  THEN CHOOSE k \in 1..(Len(s) - 1) :
         /\ s[k] = ":" /\ s[k + 1] = ":"
         /\ \A j \in 1..(k - 1) : ~(s[j] = ":" /\ s[j + 1] = ":")
  ELSE 0

\* s.split("::")
RECURSIVE SplitSep(_)
SplitSep(s) ==
  LET k == IndexOfSep(s) IN
  IF k = 0 THEN <<s>>
  ELSE <<SubSeq(s, 1, k - 1)>> \o SplitSep(SubSeq(s, k + 2, Len(s)))

\* ordering.js splitNodeId
splitNodeId(id) ==
  LET k == IndexOfSep(id) IN
  IF k = 0 THEN [axis |-> <<>>, label |-> id]
  ELSE [axis |-> SubSeq(id, 1, k - 1), label |-> SubSeq(id, k + 2, Len(id))]

\* ------------------------------------------------------------------------
\* preprocess.js: totals, initial category order, links
\* ------------------------------------------------------------------------
\* r[axis] for a row given as the sequence of its values along axs
Field(axs, r, axis) ==
  IF Includes(axs, axis)
  THEN r[CHOOSE k \in 1..Len(axs) : axs[k] = axis /\ \A j \in 1..(k - 1) : axs[j] # axis]
  ELSE UNDEFINED

\* 1) totals: nodeId -> count, over rows then axes
RECURSIVE TotalsUpTo(_, _, _)
TotalsUpTo(rs, axs, n) ==
  IF n = 0 THEN <<>>
  ELSE LET prev == TotalsUpTo(rs, axs, n - 1)
           r == rs[((n - 1) \div Len(axs)) + 1]
           axis == axs[((n - 1) % Len(axs)) + 1]
           id == nodeId(axis, normLabel(axis, Field(axs, r, axis)))
       IN MapSet(prev, id, MapGetOr0(prev, id) + 1)

Totals(rs, axs) == TotalsUpTo(rs, axs, Len(rs) * Len(axs))

\* const [a, label] = id.split("::"); totalsByCategory.set(label, v)
RECURSIVE TotalsByCategory(_, _)
TotalsByCategory(totals, axis) ==
  IF totals = <<>> THEN <<>>
  ELSE LET last == totals[Len(totals)]
           prev == TotalsByCategory(SubSeq(totals, 1, Len(totals) - 1), axis)
           parts == SplitSep(last[1])
       IN IF parts[1] # axis THEN prev ELSE MapSet(prev, parts[2], last[2])

SEQ_DC == <<DC(1), DC(2), DC(3), DC(4), DC(5), DC(6)>>

\* String.prototype.localeCompare on the symbols the inputs use
Collation ==
  <<" ", ":", "0", "1", "2", "3", "4", "5", "6", "7", "8", "9",
    "a", "b", "c", "C", "d", "D", "Missing", "P", "Q", "Sight", "Sound", "x", "X", "Y">>

Rank(c) == IF \E k \in 1..Len(Collation) : Collation[k] = c
           THEN CHOOSE k \in 1..Len(Collation) : Collation[k] = c
           ELSE Len(Collation) + 1

RECURSIVE localeCompare(_, _)
localeCompare(a, b) ==
  IF a = <<>> /\ b = <<>> THEN 0
  ELSE IF a = <<>> THEN -1
  ELSE IF b = <<>> THEN 1
  ELSE IF Rank(Head(a)) # Rank(Head(b)) THEN Sign(Rank(Head(a)) - Rank(Head(b)))
  ELSE localeCompare(Tail(a), Tail(b))

\* the comparator of the cluster axis's extras
ExtrasCmp(a, b) ==
  IF MatchDC(a) /\ MatchDC(b)
  THEN Sign(NumberOf(SubSeq(a, 3, Len(a))) - NumberOf(SubSeq(b, 3, Len(b))))
  ELSE IF MatchDC(a) THEN -1
  ELSE IF MatchDC(b) THEN 1
  ELSE localeCompare(a, b)

ClusterCategories(tbc) ==
  LET keys == MapKeys(tbc)
      canon == Filter(SEQ_DC, Elems(keys))
      others == Filter(keys, Elems(keys) \ (Elems(SEQ_DC) \cup {MISSING_LABEL}))
      extras == SortBy(others, [e \in Elems(others) \X Elems(others) |-> ExtrasCmp(e[1], e[2])])
  IN canon \o extras

\* .sort((a, b) => b[1] - a[1]) on the entries, Missing left out
FrequencyCategories(tbc) ==
  LET entries == Filter(tbc, {e \in Elems(tbc) : e[1] # MISSING_LABEL})
      byCount == [e \in Elems(entries) \X Elems(entries) |-> Sign(e[2][2] - e[1][2])]
  IN MapKeys(SortBy(entries, byCount))

\* InitialCategories without the test of the sentinel's count
InitialCategoriesAlwaysMissing(axis, tbc) ==
  LET categories == IF axis = CLUSTER THEN ClusterCategories(tbc)
                    ELSE FrequencyCategories(tbc)
  IN IF ~Includes(categories, MISSING_LABEL)
     THEN Append(categories, MISSING_LABEL)
     ELSE categories

InitialCategories(axis, tbc) ==
  LET missingCount == MapGetOr0(tbc, MISSING_LABEL)
      categories == IF axis = CLUSTER THEN ClusterCategories(tbc)
                    ELSE FrequencyCategories(tbc)
  IN IF missingCount > 0 /\ ~Includes(categories, MISSING_LABEL)
     THEN Append(categories, MISSING_LABEL)
     ELSE categories

\* 2) axisInfo = axes.map((axis, index) => ...)
BuildAxisInfo(rs, axs) ==
  LET totals == Totals(rs, axs) IN
  [k \in 1..Len(axs) |->
     LET tbc == TotalsByCategory(totals, axs[k]) IN
     [axis |-> axs[k], index |-> k - 1,
      categories |-> InitialCategories(axs[k], tbc),
      totalsByCategory |-> tbc]]

ARROW == <<"-->">>

\* a linkAgg that is the Map of the previous call
NewLinkAggShared == linkAgg

\* const linkAgg = new Map()
NewLinkAgg == <<>>

\* 3) linkAgg: key `${s}-->${t}` -> {source, target, value}, over rows then pairs
RECURSIVE LinkAggUpTo(_, _, _)
LinkAggUpTo(rs, axs, n) ==
  IF n = 0 THEN NewLinkAgg
  ELSE LET prev == LinkAggUpTo(rs, axs, n - 1)
           pairs == Len(axs) - 1
           r == rs[((n - 1) \div pairs) + 1]
           p == ((n - 1) % pairs) + 1
           s == nodeId(axs[p], normLabel(axs[p], Field(axs, r, axs[p])))
           t == nodeId(axs[p + 1], normLabel(axs[p + 1], Field(axs, r, axs[p + 1])))
           k == s \o ARROW \o t
           obj == IF MapHas(prev, k) THEN MapGet(prev, k)
                  ELSE [source |-> s, target |-> t, value |-> 0]
       IN MapSet(prev, k, [obj EXCEPT !.value = @ + 1])

BuildLinkAgg(rs, axs) ==
  IF Len(axs) < 2 THEN NewLinkAgg ELSE LinkAggUpTo(rs, axs, Len(rs) * (Len(axs) - 1))

\* ------------------------------------------------------------------------
\* ordering.js: buildPairLinks
\* ------------------------------------------------------------------------
Categories(ai) == [k \in 1..Len(ai) |-> ai[k].categories]

\* new Map(axisInfo.map((a, pos) => [a.axis, pos])).get(name): the last
\* axis of that name, 0-based; -1 stands for undefined
axisPosByName(ai, name) ==
  IF \E k \in 1..Len(ai) : ai[k].axis = name
  THEN (CHOOSE k \in 1..Len(ai) :
          ai[k].axis = name /\ \A j \in (k + 1)..Len(ai) : ai[j].axis # name) - 1
  ELSE -1

\* LinkPairPos without the test for adjacent positions
LinkPairPosAnyPair(ai, d) ==
  LET p0 == axisPosByName(ai, splitNodeId(d.source).axis)
      p1 == axisPosByName(ai, splitNodeId(d.target).axis)
  IN IF p0 = -1 \/ p1 = -1 THEN -1 ELSE p0

\* the pair position a link entry is accumulated into; -1 when it is skipped
LinkPairPos(ai, d) ==
  LET p0 == axisPosByName(ai, splitNodeId(d.source).axis)
      p1 == axisPosByName(ai, splitNodeId(d.target).axis)
  IN IF p0 = -1 \/ p1 = -1 THEN -1
     ELSE IF p1 # p0 + 1 THEN -1
     ELSE p0

\* the weight acc() has summed into pairLinks[p] for (src, tgt) over the
\* first n entries of linkAgg.values()
RECURSIVE AccWeight(_, _, _, _, _, _)
AccWeight(ai, la, n, p, src, tgt) ==
  IF n = 0 THEN 0
  ELSE LET d == la[n][2]
           hit == /\ LinkPairPos(ai, d) = p
                  /\ splitNodeId(d.source).label = src
                  /\ splitNodeId(d.target).label = tgt
       IN AccWeight(ai, la, n - 1, p, src, tgt) + (IF hit THEN d.value ELSE 0)

\* pairLinks[p + 1] maps <<srcLabel, tgtLabel>> to the weight for axis p -> p + 1
buildPairLinks(ai, la) ==
  [q \in 1..(IF Len(ai) = 0 THEN 0 ELSE Len(ai) - 1) |->
     LET keys == {<<splitNodeId(la[n][2].source).label, splitNodeId(la[n][2].target).label>> :
                    n \in {m \in 1..Len(la) : LinkPairPos(ai, la[m][2]) = q - 1}}
     IN [k \in keys |-> AccWeight(ai, la, Len(la), q - 1, k[1], k[2])]]

\* ------------------------------------------------------------------------
\* ordering.js: reorderBarycentricAxisInfo
\* ------------------------------------------------------------------------
\* refreshPos: label -> index, the last index of a repeated label
PosOf(categories) ==
  [lab \in Elems(categories) |->
     (CHOOSE k \in 1..Len(categories) :
        categories[k] = lab /\ \A j \in (k + 1)..Len(categories) : categories[j] # lab) - 1]

\* axisInfo.findIndex(a => a.axis === lockAxisName), 0-based, -1 when absent
lockPos(ai, o) ==
  IF \E k \in 1..Len(ai) : ai[k].axis = o.lockAxisName
  THEN (CHOOSE k \in 1..Len(ai) :
          ai[k].axis = o.lockAxisName /\ \A j \in 1..(k - 1) : ai[j].axis # o.lockAxisName) - 1
  ELSE -1

isLockedNever(ai, o, k) == FALSE

\* isLocked with the first axis exempt as well
isLockedOrFirst(ai, o, k) == k = lockPos(ai, o) \/ k = 0

isLocked(ai, o, k) == k = lockPos(ai, o)

\* splitMissing with the sentinel appended whatever its count
splitMissingAlwaysHas(categories, totalsByCategory, missingLabel) ==
  [base |-> IF missingLabel # <<>>
            THEN Filter(categories, Elems(categories) \ {missingLabel})
            ELSE categories,
   hasMissing |-> missingLabel # <<>>]

\* splitMissing: an empty missingLabel is falsy
splitMissing(categories, totalsByCategory, missingLabel) ==
  LET missingCount == IF missingLabel # <<>> THEN MapGetOr0(totalsByCategory, missingLabel) ELSE 0
  IN [base |-> IF missingLabel # <<>>
               THEN Filter(categories, Elems(categories) \ {missingLabel})
               ELSE categories,
      hasMissing |-> IF missingLabel # <<>> THEN missingCount > 0 ELSE FALSE]

RECURSIVE SumOver(_, _)
SumOver(S, f) ==
  IF S = {} THEN 0
  ELSE LET x == CHOOSE y \in S : TRUE IN f[x] + SumOver(S \ {x}, f)

\* A score n / d is the pair <<n, d>>, d > 0; the quotients of two such pairs of
\* small integers are equal as doubles exactly when the fractions are equal.
ScoreCmpDescending(su, sv) == Sign(sv[1] * su[2] - su[1] * sv[2])

ScoreCmp(su, sv) == Sign(su[1] * sv[2] - sv[1] * su[2])

\* the comparator with the labels that have no score sorted first
ReorderCmpUnscoredFirst(scores, currentPos, u, v) ==
  LET pu == IF u \in DOMAIN currentPos THEN currentPos[u] ELSE 0
      pv == IF v \in DOMAIN currentPos THEN currentPos[v] ELSE 0
  IN IF u \notin DOMAIN scores /\ v \notin DOMAIN scores THEN Sign(pu - pv)
     ELSE IF u \notin DOMAIN scores THEN -1
     ELSE IF v \notin DOMAIN scores THEN 1
     ELSE IF ScoreCmp(scores[u], scores[v]) # 0 THEN ScoreCmp(scores[u], scores[v])
     ELSE Sign(pu - pv)

\* the comparator of applyReorder's base.sort
ReorderCmp(scores, currentPos, u, v) ==
  LET pu == IF u \in DOMAIN currentPos THEN currentPos[u] ELSE 0
      pv == IF v \in DOMAIN currentPos THEN currentPos[v] ELSE 0
  IN IF u \notin DOMAIN scores /\ v \notin DOMAIN scores THEN Sign(pu - pv)
     ELSE IF u \notin DOMAIN scores THEN 1
     ELSE IF v \notin DOMAIN scores THEN -1
     ELSE IF ScoreCmp(scores[u], scores[v]) # 0 THEN ScoreCmp(scores[u], scores[v])
     ELSE Sign(pu - pv)

\* applyReorder with the sentinel left in the sort
applyReorderUnsplit(a, currentPos, scores, missingLabel) ==
  LET cats == a.categories
  IN SortBy(cats, [e \in Elems(cats) \X Elems(cats) |-> ReorderCmp(scores, currentPos, e[1], e[2])])

\* applyReorder: the new category list of an axis
applyReorder(a, currentPos, scores, missingLabel) ==
  LET sm == splitMissing(a.categories, a.totalsByCategory, missingLabel)
      cmp == [e \in Elems(sm.base) \X Elems(sm.base) |->
                ReorderCmp(scores, currentPos, e[1], e[2])]
      sorted == SortBy(sm.base, cmp)
  IN IF sm.hasMissing THEN sorted \o <<missingLabel>> ELSE sorted

\* scoresFromPrev with every positive link counted once, whatever its weight
scoresFromPrevUnweighted(pl, ps, k) ==
  IF k <= 0 THEN <<>>
  ELSE LET prevPos == ps[k]
           links == pl[k]
           used == {e \in DOMAIN links : e[1] \in DOMAIN prevPos /\ links[e] > 0}
           tgts == {e[2] : e \in used}
           num(t) == SumOver({e \in used : e[2] = t}, [e \in used |-> prevPos[e[1]]])
           den(t) == Cardinality({e \in used : e[2] = t})
       IN [t \in {u \in tgts : den(u) > 0} |-> <<num(t), den(t)>>]

\* scoresFromPrev without the tests w <= 0 and den > 0
scoresFromPrevAnyWeight(pl, ps, k) ==
  IF k <= 0 THEN <<>>
  ELSE LET prevPos == ps[k]
           links == pl[k]
           used == {e \in DOMAIN links : e[1] \in DOMAIN prevPos}
           tgts == {e[2] : e \in used}
           num(t) == SumOver({e \in used : e[2] = t}, [e \in used |-> links[e] * prevPos[e[1]]])
           den(t) == SumOver({e \in used : e[2] = t}, [e \in used |-> links[e]])
       IN [t \in tgts |-> <<num(t), den(t)>>]

\* scoresFromPrev(k): scores for axis k (0-based) from the positions of axis k - 1
scoresFromPrev(pl, ps, k) ==
  IF k <= 0 THEN <<>>
  ELSE LET prevPos == ps[k]
           links == pl[k]
           used == {e \in DOMAIN links : e[1] \in DOMAIN prevPos /\ links[e] > 0}
           tgts == {e[2] : e \in used}
           num(t) == SumOver({e \in used : e[2] = t}, [e \in used |-> links[e] * prevPos[e[1]]])
           den(t) == SumOver({e \in used : e[2] = t}, [e \in used |-> links[e]])
       IN [t \in {u \in tgts : den(u) > 0} |-> <<num(t), den(t)>>]

\* scoresFromNext with every positive link counted once, whatever its weight
scoresFromNextUnweighted(pl, ps, k, nAxes) ==
  IF k >= nAxes - 1 THEN <<>>
  ELSE LET nextPos == ps[k + 2]
           links == pl[k + 1]
           used == {e \in DOMAIN links : e[2] \in DOMAIN nextPos /\ links[e] > 0}
           srcs == {e[1] : e \in DOMAIN links}
           num(s) == SumOver({e \in used : e[1] = s}, [e \in used |-> nextPos[e[2]]])
           den(s) == Cardinality({e \in used : e[1] = s})
       IN [s \in {u \in srcs : den(u) > 0} |-> <<num(s), den(s)>>]

\* scoresFromNext(k): scores for axis k (0-based) from the positions of axis k + 1
scoresFromNext(pl, ps, k, nAxes) ==
  IF k >= nAxes - 1 THEN <<>>
  ELSE LET nextPos == ps[k + 2]
           links == pl[k + 1]
           used == {e \in DOMAIN links : e[2] \in DOMAIN nextPos /\ links[e] > 0}
           srcs == {e[1] : e \in DOMAIN links}
           num(s) == SumOver({e \in used : e[1] = s}, [e \in used |-> links[e] * nextPos[e[2]]])
           den(s) == SumOver({e \in used : e[1] = s}, [e \in used |-> links[e]])
       IN [s \in {u \in srcs : den(u) > 0} |-> <<num(s), den(s)>>]

\* Number.isFinite(iterations) ? iterations : 6
DEFAULT_ITERATIONS == 6

iters(o) == IF o.iterations \in Int THEN o.iterations ELSE DEFAULT_ITERATIONS

\* if (nAxes <= 2) return;
tooFewAxesOff(nAxes) == nAxes <= 1

tooFewAxes(nAxes) == nAxes <= 2

\* an iteration counter that outlives the call
LoopStartKept == it

\* the start of for (let it = 0; it < iters; it++)
LoopStart == 0

\* the test of for (let it = 0; it < iters; it++)
loopContinuesOff(n, o) == n <= iters(o)

\* the loop test with a stop once the lists are back to what they were
loopContinuesWhileChanging(n, o) ==
  n < iters(o) /\ (n = 0 \/ Categories(axisInfo) # cats0)

loopContinues(n, o) == n < iters(o)

\* The call as a function of its arguments: the axisInfo it leaves.
\* posMaps: the position maps, refreshed after every reorder
posMaps(ai) == [k \in 1..Len(ai) |-> PosOf(ai[k].categories)]

\* the body of the forward loop (fwd) or of the backward loop for axis k
sweepStep(ai, pl, o, fwd, k) ==
  IF isLocked(ai, o, k) THEN ai
  ELSE LET scores == IF fwd THEN scoresFromPrev(pl, posMaps(ai), k)
                     ELSE scoresFromNext(pl, posMaps(ai), k, Len(ai))
       IN [ai EXCEPT ![k + 1].categories =
             applyReorder(ai[k + 1], PosOf(ai[k + 1].categories), scores, o.missingLabel)]

\* for (let i = 1; i < nAxes; i++), from axis k on
RECURSIVE forwardSweep(_, _, _, _)
forwardSweep(ai, pl, o, k) ==
  IF k < Len(ai) THEN forwardSweep(sweepStep(ai, pl, o, TRUE, k), pl, o, k + 1) ELSE ai

\* for (let i = nAxes - 2; i >= 0; i--), from axis k on
RECURSIVE backwardSweep(_, _, _, _)
backwardSweep(ai, pl, o, k) ==
  IF k >= 0 THEN backwardSweep(sweepStep(ai, pl, o, FALSE, k), pl, o, k - 1) ELSE ai

\* the iteration loop, from iteration n on
RECURSIVE iterate(_, _, _, _)
iterate(ai, pl, o, n) ==
  IF loopContinues(n, o)
  THEN iterate(backwardSweep(forwardSweep(ai, pl, o, 1), pl, o, Len(ai) - 2), pl, o, n + 1)
  ELSE ai

reorderBarycentricAxisInfo(ai, la, o) ==
  IF tooFewAxes(Len(ai)) THEN ai ELSE iterate(ai, buildPairLinks(ai, la), o, 0)

\* ------------------------------------------------------------------------
\* render.js: the geometry lookup of initViz (parallel mode)
\* ------------------------------------------------------------------------
RENDER_CLUSTER_AXIS == <<"Concept Cluster">>

NULL == <<"null">>

normClusterLabel(v) ==
  LET s == Trim(StringOf(v)) IN
  IF s = <<>> THEN <<>>
  ELSE IF MatchC(s) THEN DC(NumberOf(SubSeq(s, 2, Len(s))) + 1)
  ELSE s

\* the label render.js looks up for a raw value; <<>> when it looks nothing up
RenderLabel(ax, raw) ==
  LET v == Trim(StringOf(raw)) IN
  IF v = <<>> THEN <<>>
  ELSE IF ax = RENDER_CLUSTER_AXIS THEN normClusterLabel(v)
  ELSE v

\* geo: the keys `${n.axis}::${n.label}` of the nodes
GeoKeys(ns) == {nodeId(ns[k].axis, ns[k].label) : k \in 1..Len(ns)}

\* one entry of pts: the node whose centre the point is taken from, or null
RowPoint(ns, ax, raw) ==
  LET v == RenderLabel(ax, raw) IN
  IF v = <<>> THEN NULL
  ELSE IF nodeId(ax, v) \in GeoKeys(ns) THEN nodeId(ax, v)
  ELSE NULL

\* ------------------------------------------------------------------------
\* Actions
\* ------------------------------------------------------------------------
\* preprocess, steps 1-3, up to the call of reduceCrossings
Preprocess ==
  /\ pc = "preprocess"
  /\ axisInfo' = BuildAxisInfo(rows, axes)
  /\ linkAgg' = BuildLinkAgg(rows, axes)
  /\ opts' = [lockAxisName |-> CLUSTER, missingLabel |-> MISSING_LABEL, iterations |-> 6]
  /\ pc' = "reduce"
  /\ UNCHANGED <<axes, rows, pairLinks, pos, it, i, cats0, nodes, rowPaths,
                 rawIn, axisIn, labelOut, prior, ends>>

\* reduceCrossings up to the first sweep step: buildPairLinks, the guard on
\* the number of axes, the position maps, the entry of the iteration loop
ReduceCrossings ==
  /\ pc = "reduce"
  /\ pairLinks' = buildPairLinks(axisInfo, linkAgg)
  /\ cats0' = Categories(axisInfo)
  /\ IF tooFewAxes(Len(axisInfo))
     THEN /\ pc' = "reduced"
          /\ UNCHANGED <<pos, it, i>>
     ELSE /\ pos' = [k \in 1..Len(axisInfo) |-> PosOf(axisInfo[k].categories)]
          /\ it' = LoopStart
          /\ IF loopContinues(LoopStart, opts)
             THEN pc' = "forward" /\ i' = 1
             ELSE pc' = "reduced" /\ UNCHANGED i
  /\ ends' = <<>>
  /\ UNCHANGED <<axes, rows, axisInfo, linkAgg, opts, nodes, rowPaths,
                 rawIn, axisIn, labelOut, prior>>

\* applyReorder without its refreshPos(i)
ReorderedStalePos(k, scores) ==
  LET cats == applyReorder(axisInfo[k + 1], pos[k + 1], scores, opts.missingLabel) IN
  /\ axisInfo' = [axisInfo EXCEPT ![k + 1].categories = cats]
  /\ pos' = pos

\* axisInfo and pos after applyReorder(k, scores), k 0-based
Reordered(k, scores) ==
  LET cats == applyReorder(axisInfo[k + 1], pos[k + 1], scores, opts.missingLabel) IN
  /\ axisInfo' = [axisInfo EXCEPT ![k + 1].categories = cats]
  /\ pos' = [pos EXCEPT ![k + 1] = PosOf(cats)]

\* one pass of the forward sweep's loop body, for axis i
ForwardStep ==
  /\ pc = "forward"
  /\ IF isLocked(axisInfo, opts, i)
     THEN UNCHANGED <<axisInfo, pos>>
     ELSE Reordered(i, scoresFromPrev(pairLinks, pos, i))
  /\ IF i + 1 < Len(axisInfo)
     THEN i' = i + 1 /\ pc' = "forward"
     ELSE i' = Len(axisInfo) - 2 /\ pc' = "backward"
  /\ UNCHANGED <<axes, rows, linkAgg, opts, pairLinks, it, cats0, nodes, rowPaths,
                 rawIn, axisIn, labelOut, prior, ends>>

\* one pass of the backward sweep's loop body, for axis i
BackwardStep ==
  /\ pc = "backward"
  /\ IF isLocked(axisInfo, opts, i)
     THEN UNCHANGED <<axisInfo, pos>>
     ELSE Reordered(i, scoresFromNext(pairLinks, pos, i, Len(axisInfo)))
  /\ IF i - 1 >= 0
     THEN i' = i - 1 /\ pc' = "backward" /\ it' = it
     ELSE /\ it' = it + 1
          /\ IF loopContinues(it + 1, opts)
             THEN i' = 1 /\ pc' = "forward"
             ELSE i' = i /\ pc' = "reduced"
  /\ ends' = IF i - 1 >= 0 THEN ends ELSE Append(ends, Categories(axisInfo'))
  /\ UNCHANGED <<axes, rows, linkAgg, opts, pairLinks, cats0, nodes, rowPaths,
                 rawIn, axisIn, labelOut, prior>>

\* the nodes of an axis taken from the category list reduceCrossings was given
NodesOfAxisBeforeReduce(a) ==
  LET cats == cats0[a.index + 1] IN
  [k \in 1..Len(cats) |->
     [id |-> nodeId(a.axis, cats[k]), axis |-> a.axis, label |-> cats[k],
      index |-> a.index, order |-> k - 1,
      value |-> MapGetOr0(a.totalsByCategory, cats[k])]]

\* preprocess, step 5: the nodes, after reordering
NodesOfAxis(a) ==
  [k \in 1..Len(a.categories) |->
     [id |-> nodeId(a.axis, a.categories[k]), axis |-> a.axis, label |-> a.categories[k],
      index |-> a.index, order |-> k - 1,
      value |-> MapGetOr0(a.totalsByCategory, a.categories[k])]]

RECURSIVE NodesUpTo(_, _)
NodesUpTo(ai, n) ==
  IF n = 0 THEN <<>> ELSE NodesUpTo(ai, n - 1) \o NodesOfAxis(ai[n])

BuildNodes ==
  /\ pc = "reduced"
  /\ nodes' = NodesUpTo(axisInfo, Len(axisInfo))
  /\ pc' = "nodes"
  /\ UNCHANGED <<axes, rows, axisInfo, linkAgg, opts, pairLinks, pos, it, i, cats0,
                 rowPaths, rawIn, axisIn, labelOut, prior, ends>>

\* what preprocess returned, with the initial category lists
Returned == [axisInfo |-> axisInfo, links |-> linkAgg, nodes |-> nodes, initial |-> cats0]

\* preprocess is called once more on the same rows and axis list; its locals
\* are new, its previous result is kept for comparison
Rerun ==
  /\ pc = "done"
  /\ prior = <<>>
  /\ prior' = <<Returned>>
  /\ pc' = "preprocess"
  /\ pairLinks' = <<>> /\ pos' = <<>> /\ it' = 0 /\ i' = 0
  /\ cats0' = <<>> /\ nodes' = <<>> /\ rowPaths' = <<>> /\ ends' = <<>>
  /\ UNCHANGED <<axes, rows, axisInfo, linkAgg, opts, rawIn, axisIn, labelOut>>

\* initViz: rowPaths, each row's pts along AXES
InitVizRowPaths ==
  /\ pc = "nodes"
  /\ rowPaths' = [r \in 1..Len(rows) |->
                    [a \in 1..Len(axes) |-> RowPoint(nodes, axes[a], Field(axes, rows[r], axes[a]))]]
  /\ pc' = "done"
  /\ UNCHANGED <<axes, rows, axisInfo, linkAgg, opts, pairLinks, pos, it, i, cats0,
                 nodes, rawIn, axisIn, labelOut, prior, ends>>

\* ------------------------------------------------------------------------
\* The figure's pipeline: initViz calls preprocess on the loaded rows
\* ------------------------------------------------------------------------
MaxRows == 3

MaxRows3 == 2

RECURSIVE SeqsUpTo(_, _)
SeqsUpTo(S, n) ==
  IF n = 0 THEN {<<>>}
  ELSE LET shorter == SeqsUpTo(S, n - 1)
       IN shorter \cup {Append(s, e) : s \in {t \in shorter : Len(t) = n - 1}, e \in S}

MEDIATION == <<"Level of Mediation">>
INTERACTION == <<"Interaction Type">>

\* prefixes of config.js AXES
AxesChoices == {<<>>, <<CLUSTER>>, <<CLUSTER, MEDIATION>>, <<CLUSTER, MEDIATION, INTERACTION>>}

RawCluster1 == {<<"C", "0">>, <<"C", "6">>, <<"D", "C", "2">>, <<"d", "c", "0", "7">>,
                <<"D", "C", "1", "0">>, <<"X">>, <<"Y", ":", ":", "x">>, <<" ">>}
RawCluster == {<<"C", "0">>, <<"D", "C", "2">>, <<>>}
RawMediation == {<<"Sight">>, <<"Sound">>, <<" ">>, <<"a", ":", ":", "b">>}
RawCluster3 == {<<"C", "0">>, <<"D", "C", "2">>}
RawMediation3 == {<<"Sight">>, <<"Sound">>, <<>>}
RawInteraction == {<<"P">>, <<"Q">>, UNDEFINED}

\* two-axis rows whose labels hold the text the link key is built with
ArrowTo(label, rest) == label \o ARROW \o MEDIATION \o SEP \o rest

ArrowRows ==
  {<< <<"X">>, ArrowTo(<<"Sight">>, <<"Sound">>) >>,
   << ArrowTo(<<"X">>, <<"Sight">>), <<"Sound">> >>,
   << <<>>, ArrowTo(<<"Sight">>, <<"Sound">>) >>,
   << ArrowTo(MISSING_LABEL, <<"Sight">>), <<"Sound">> >>}

\* the rows a data set is mostly drawn from, by the axis list
RowPool(axs) ==
  CASE Len(axs) = 0 -> {<<>>}
    [] Len(axs) = 1 -> {<<c>> : c \in RawCluster1}
    [] Len(axs) = 2 -> {<<c, m>> : c \in RawCluster, m \in RawMediation}
    [] OTHER -> {<<c, m, x>> : c \in RawCluster3, m \in RawMediation3, x \in RawInteraction}

RowLimit(axs) == IF Len(axs) <= 2 THEN MaxRows ELSE MaxRows3

NormIdle == rawIn = <<>> /\ axisIn = <<>> /\ labelOut = <<>>

Init ==
  /\ pc = "preprocess"
  /\ axes \in AxesChoices
  /\ rows \in SeqsUpTo(RowPool(axes), RowLimit(axes))
               \cup (IF Len(axes) = 2 THEN SeqsUpTo(ArrowRows, 2) ELSE {})
  /\ axisInfo = <<>> /\ linkAgg = <<>>
  /\ opts = [lockAxisName |-> CLUSTER, missingLabel |-> MISSING_LABEL, iterations |-> 6]
  /\ pairLinks = <<>> /\ pos = <<>> /\ it = 0 /\ i = 0
  /\ cats0 = <<>> /\ nodes = <<>> /\ rowPaths = <<>>
  /\ NormIdle
  /\ prior = <<>>
  /\ ends = <<>>

ReduceNext == ReduceCrossings \/ ForwardStep \/ BackwardStep

Next == Preprocess \/ ReduceNext \/ BuildNodes \/ InitVizRowPaths \/ Rerun

Spec == Init /\ [][Next]_vars

\* ------------------------------------------------------------------------
\* reduceCrossings called directly on an axisInfo and a link collection
\* ------------------------------------------------------------------------
MaxIter == 2

MaxLinks == 2

LA == <<"A">>
LB == <<"B">>
LX == <<"X">>
LY == <<"Y">>
LP == <<"P">>
LQ == <<"Q">>

\* an axisInfo entry whose categories each occur once
AxisOf(name, k, cats) ==
  [axis |-> name, index |-> k, categories |-> cats,
   totalsByCategory |-> [x \in 1..Len(cats) |-> <<cats[x], 1>>]]

Cats0 == {<<LA, LB>>}
Cats1 == {<<LX, LY>>, <<LY, LX>>, <<LX, MISSING_LABEL, LY>>, <<LY, LX, MISSING_LABEL>>}
Cats2 == {<<LP, LQ>>, <<LQ, LP, MISSING_LABEL>>}

DirectAxisInfos ==
  {<<>>}
  \cup {<<AxisOf(CLUSTER, 0, c0)>> : c0 \in Cats0}
  \cup {<<AxisOf(CLUSTER, 0, c0), AxisOf(MEDIATION, 1, c1)>> : c0 \in Cats0, c1 \in Cats1}
  \cup {<<AxisOf(CLUSTER, 0, c0), AxisOf(MEDIATION, 1, c1), AxisOf(INTERACTION, 2, c2)>> :
          c0 \in Cats0, c1 \in Cats1, c2 \in Cats2}

Link(a0, l0, a1, l1, w) == [source |-> nodeId(a0, l0), target |-> nodeId(a1, l1), value |-> w]

\* candidate link entries: adjacent pairs with positive, zero and negative
\* weights, an unknown axis, a non-adjacent pair, a backward pair
LinkPool ==
  << Link(CLUSTER, LA, MEDIATION, LX, 1),
     Link(CLUSTER, LB, MEDIATION, LY, 1),
     Link(CLUSTER, LA, MEDIATION, LY, 2),
     Link(CLUSTER, LB, MEDIATION, LX, 2),
     Link(CLUSTER, LA, MEDIATION, MISSING_LABEL, 1),
     Link(MEDIATION, LX, INTERACTION, LP, 1),
     Link(MEDIATION, LY, INTERACTION, LQ, 1),
     Link(MEDIATION, LX, INTERACTION, LQ, 2),
     Link(MEDIATION, LX, INTERACTION, MISSING_LABEL, 1),
     Link(MEDIATION, LY, INTERACTION, LP, 1),
     Link(CLUSTER, LA, MEDIATION, LX, -1),
     Link(CLUSTER, LB, MEDIATION, LY, 0),
     Link(<<"Nope">>, LB, MEDIATION, LX, 3),
     Link(CLUSTER, LB, INTERACTION, LP, 3),
     Link(MEDIATION, LX, CLUSTER, LB, 3) >>

\* the Map holding the chosen entries of a pool, in pool order, keyed by index
RECURSIVE LinkMap(_, _, _)
LinkMap(pool, chosen, n) ==
  IF n = 0 THEN <<>>
  ELSE IF n \in chosen THEN Append(LinkMap(pool, chosen, n - 1), <<n, pool[n]>>)
  ELSE LinkMap(pool, chosen, n - 1)

DirectLinkAggs ==
  {LinkMap(LinkPool, c, Len(LinkPool)) :
     c \in {d \in SUBSET (1..Len(LinkPool)) : Cardinality(d) <= MaxLinks}}

LockNames == {CLUSTER, MEDIATION, INTERACTION, <<"None">>}

MissingLabels == {MISSING_LABEL, <<>>}

InitDirect ==
  /\ pc = "reduce"
  /\ axes = <<>> /\ rows = <<>>
  /\ axisInfo \in DirectAxisInfos
  /\ linkAgg \in DirectLinkAggs
  /\ opts \in [lockAxisName : LockNames, missingLabel : MissingLabels, iterations : 0..MaxIter]
  /\ pairLinks = <<>> /\ pos = <<>> /\ it = 0 /\ i = 0
  /\ cats0 = <<>> /\ nodes = <<>> /\ rowPaths = <<>>
  /\ NormIdle
  /\ prior = <<>>
  /\ ends = <<>>

SpecReduce == InitDirect /\ [][ReduceNext]_vars

\* ------------------------------------------------------------------------
\* reduceCrossings for one iteration on the three-axis lists, with every
\* small link collection of the pool
\* ------------------------------------------------------------------------
InitWeights ==
  /\ pc = "reduce"
  /\ axes = <<>> /\ rows = <<>>
  /\ axisInfo \in {ai \in DirectAxisInfos : Len(ai) = 3}
  /\ linkAgg \in DirectLinkAggs
  /\ opts \in [lockAxisName : {CLUSTER, <<"None">>}, missingLabel : {MISSING_LABEL},
               iterations : {1}]
  /\ pairLinks = <<>> /\ pos = <<>> /\ it = 0 /\ i = 0
  /\ cats0 = <<>> /\ nodes = <<>> /\ rowPaths = <<>>
  /\ NormIdle
  /\ prior = <<>>
  /\ ends = <<>>

SpecWeights == InitWeights /\ [][ReduceNext]_vars

\* ------------------------------------------------------------------------
\* reduceCrossings followed to its return, on the same axes with a few link
\* collections.  The call is synchronous, so each step is taken.
\* ------------------------------------------------------------------------
SweepLinkAggs ==
  {LinkMap(LinkPool, c, Len(LinkPool)) : c \in {{}, {1}, {1, 7}, {4, 6}}}

InitSweep ==
  /\ pc = "reduce"
  /\ axes = <<>> /\ rows = <<>>
  /\ axisInfo \in DirectAxisInfos
  /\ linkAgg \in SweepLinkAggs
  /\ opts \in [lockAxisName : {CLUSTER, <<"None">>}, missingLabel : {MISSING_LABEL},
               iterations : 0..MaxIter]
  /\ pairLinks = <<>> /\ pos = <<>> /\ it = 0 /\ i = 0
  /\ cats0 = <<>> /\ nodes = <<>> /\ rowPaths = <<>>
  /\ NormIdle
  /\ prior = <<>>
  /\ ends = <<>>

SpecSweep == InitSweep /\ [][ReduceNext]_vars /\ WF_vars(ReduceNext)

\* ------------------------------------------------------------------------
\* reduceCrossings on the three-axis preference inputs: the first axis locked
\* and listing A before B, the middle axis listing X and Y, links A -> X and
\* B -> Y, and a few further link entries
\* ------------------------------------------------------------------------
MaxExtra == 2

PreferenceWeights == {1, 2}

PreferenceExtras ==
  << Link(MEDIATION, LX, INTERACTION, LP, 1),
     Link(MEDIATION, LY, INTERACTION, LQ, 1),
     Link(MEDIATION, LX, INTERACTION, LQ, 2),
     Link(MEDIATION, LY, INTERACTION, LP, 1),
     Link(MEDIATION, LX, INTERACTION, MISSING_LABEL, 1),
     Link(CLUSTER, LA, MEDIATION, LX, -1),
     Link(CLUSTER, LB, MEDIATION, LY, 0),
     Link(CLUSTER, LA, MEDIATION, LY, -1),
     Link(<<"Nope">>, LB, MEDIATION, LX, 3),
     Link(CLUSTER, LB, INTERACTION, LP, 3),
     Link(MEDIATION, LX, CLUSTER, LB, 3) >>

PreferenceLinkAggs ==
  {<< <<"ax", Link(CLUSTER, LA, MEDIATION, LX, wa)>>,
      <<"by", Link(CLUSTER, LB, MEDIATION, LY, wb)>> >>
     \o LinkMap(PreferenceExtras, c, Len(PreferenceExtras)) :
     wa \in PreferenceWeights, wb \in PreferenceWeights,
     c \in {d \in SUBSET (1..Len(PreferenceExtras)) : Cardinality(d) <= MaxExtra}}

InitPreference ==
  /\ pc = "reduce"
  /\ axes = <<>> /\ rows = <<>>
  /\ axisInfo \in {<<AxisOf(CLUSTER, 0, <<LA, LB>>), AxisOf(MEDIATION, 1, c1),
                     AxisOf(INTERACTION, 2, c2)>> :
                     c1 \in {<<LX, LY>>, <<LY, LX>>}, c2 \in Cats2}
  /\ linkAgg \in PreferenceLinkAggs
  /\ opts \in [lockAxisName : {CLUSTER}, missingLabel : MissingLabels, iterations : 0..MaxIter]
  /\ pairLinks = <<>> /\ pos = <<>> /\ it = 0 /\ i = 0
  /\ cats0 = <<>> /\ nodes = <<>> /\ rowPaths = <<>>
  /\ NormIdle
  /\ prior = <<>>
  /\ ends = <<>>

SpecPreference == InitPreference /\ [][ReduceNext]_vars

\* ------------------------------------------------------------------------
\* Normaliser specification: one raw value, one axis, one call of normLabel
\* ------------------------------------------------------------------------
NormAlphabet == {"D", "C", "c", "0", "1", "2", "5", "6", "7", " ", "x"}

RECURSIVE StringsUpTo(_, _)
StringsUpTo(alphabet, n) ==
  IF n = 0 THEN {<<>>}
  ELSE LET shorter == StringsUpTo(alphabet, n - 1)
       IN shorter \cup {Append(s, c) : s \in {t \in shorter : Len(t) = n - 1}, c \in alphabet}

NormAxes == {CLUSTER, <<"Sensory Modality">>}

PipelineIdle ==
  /\ axes = <<>> /\ rows = <<>> /\ axisInfo = <<>> /\ linkAgg = <<>>
  /\ opts = [lockAxisName |-> CLUSTER, missingLabel |-> MISSING_LABEL, iterations |-> 6]
  /\ pairLinks = <<>> /\ pos = <<>> /\ it = 0 /\ i = 0
  /\ cats0 = <<>> /\ nodes = <<>> /\ rowPaths = <<>>

InitNorm ==
  /\ pc = "norm"
  /\ rawIn \in StringsUpTo(NormAlphabet, MaxLen)
  /\ axisIn \in NormAxes
  /\ labelOut = <<>>
  /\ PipelineIdle
  /\ prior = <<>>
  /\ ends = <<>>

NormLabelCall ==
  /\ pc = "norm"
  /\ labelOut' = normLabel(axisIn, rawIn)
  /\ pc' = "normed"
  /\ UNCHANGED <<axes, rows, axisInfo, linkAgg, opts, pairLinks, pos, it, i,
                 cats0, nodes, rowPaths, rawIn, axisIn, prior, ends>>

NextNorm == NormLabelCall

SpecNorm == InitNorm /\ [][NextNorm]_vars

\* ------------------------------------------------------------------------
\* reduceCrossings on three axes whose middle axis lists three labels, in
\* every order, with or without the sentinel, and a few links either side
\* ------------------------------------------------------------------------
MaxOrderLinks == 3

LZ == <<"Z">>

OrderCats1 ==
  {<<LX, LY, LZ>>, <<LX, LZ, LY>>, <<LY, LX, LZ>>, <<LY, LZ, LX>>, <<LZ, LX, LY>>, <<LZ, LY, LX>>,
   <<LZ, LY, LX, MISSING_LABEL>>, <<LY, MISSING_LABEL, LX, LZ>>}

OrderAxisInfos ==
  {<<AxisOf(CLUSTER, 0, <<LA, LB>>), AxisOf(MEDIATION, 1, c1), AxisOf(INTERACTION, 2, <<LP, LQ>>)>> :
     c1 \in OrderCats1}

OrderPool ==
  << Link(CLUSTER, LA, MEDIATION, LX, 1),
     Link(CLUSTER, LA, MEDIATION, LY, 1),
     Link(CLUSTER, LB, MEDIATION, LY, 1),
     Link(CLUSTER, LB, MEDIATION, LZ, 2),
     Link(CLUSTER, LA, MEDIATION, LZ, 1),
     Link(CLUSTER, LA, MEDIATION, MISSING_LABEL, 1),
     Link(MEDIATION, LX, INTERACTION, LP, 1),
     Link(MEDIATION, LY, INTERACTION, LP, 1),
     Link(MEDIATION, LY, INTERACTION, LQ, 1),
     Link(MEDIATION, LZ, INTERACTION, LQ, 2) >>

OrderLinkAggs ==
  {LinkMap(OrderPool, c, Len(OrderPool)) :
     c \in {d \in SUBSET (1..Len(OrderPool)) : Cardinality(d) <= MaxOrderLinks}}

InitOrder ==
  /\ pc = "reduce"
  /\ axes = <<>> /\ rows = <<>>
  /\ axisInfo \in OrderAxisInfos
  /\ linkAgg \in OrderLinkAggs
  /\ opts \in [lockAxisName : LockNames, missingLabel : {MISSING_LABEL},
               iterations : {1, MaxIter}]
  /\ pairLinks = <<>> /\ pos = <<>> /\ it = 0 /\ i = 0
  /\ cats0 = <<>> /\ nodes = <<>> /\ rowPaths = <<>>
  /\ NormIdle
  /\ prior = <<>>
  /\ ends = <<>>

SpecOrder == InitOrder /\ [][ReduceNext]_vars

\* ------------------------------------------------------------------------
\* reduceCrossings with no axis locked on three axes of two, three and three
\* labels, given in every order, and eight links, for several iterations
\* ------------------------------------------------------------------------
MaxOscIter == 6

LR == <<"R">>

\* the orders of a set of labels
Orders(S) == {s \in [1..Cardinality(S) -> S] : \A x, y \in DOMAIN s : s[x] = s[y] => x = y}

OscAxisInfos ==
  {<<AxisOf(CLUSTER, 0, c0), AxisOf(MEDIATION, 1, c1), AxisOf(INTERACTION, 2, c2)>> :
     c0 \in Orders({LA, LB}), c1 \in Orders({LX, LY, LZ}), c2 \in Orders({LP, LQ, LR})}

OscPool ==
  << Link(CLUSTER, LA, MEDIATION, LY, 2),
     Link(CLUSTER, LA, MEDIATION, LZ, 1),
     Link(CLUSTER, LB, MEDIATION, LX, 1),
     Link(MEDIATION, LX, INTERACTION, LP, 2),
     Link(MEDIATION, LX, INTERACTION, LQ, 1),
     Link(MEDIATION, LY, INTERACTION, LP, 1),
     Link(MEDIATION, LZ, INTERACTION, LQ, 1),
     Link(MEDIATION, LZ, INTERACTION, LR, 2) >>

InitOscillate ==
  /\ pc = "reduce"
  /\ axes = <<>> /\ rows = <<>>
  /\ axisInfo \in OscAxisInfos
  /\ linkAgg = LinkMap(OscPool, 1..Len(OscPool), Len(OscPool))
  /\ opts = [lockAxisName |-> <<"None">>, missingLabel |-> MISSING_LABEL, iterations |-> MaxOscIter]
  /\ pairLinks = <<>> /\ pos = <<>> /\ it = 0 /\ i = 0
  /\ cats0 = <<>> /\ nodes = <<>> /\ rowPaths = <<>>
  /\ NormIdle
  /\ prior = <<>>
  /\ ends = <<>>

SpecOscillate == InitOscillate /\ [][ReduceNext]_vars

\* ------------------------------------------------------------------------
\* reduceCrossings called twice on the same axisInfo object: with N
\* iterations, then, on the lists that call left, with M iterations, the
\* links and the other options unchanged
\* ------------------------------------------------------------------------
\* the caller's second call; the lists and the iteration count of the first
\* call are kept for comparison
CallAgain ==
  /\ pc = "reduced"
  /\ prior = <<>>
  /\ prior' = <<[first |-> cats0, n |-> opts.iterations]>>
  /\ \E m \in 0..MaxIter : opts' = [opts EXCEPT !.iterations = m]
  /\ pc' = "reduce"
  /\ UNCHANGED <<axes, rows, axisInfo, linkAgg, pairLinks, pos, it, i, cats0, nodes,
                 rowPaths, rawIn, axisIn, labelOut, ends>>

InitTwice ==
  /\ pc = "reduce"
  /\ axes = <<>> /\ rows = <<>>
  /\ \/ axisInfo \in DirectAxisInfos /\ linkAgg \in SweepLinkAggs
     \/ axisInfo \in OscAxisInfos /\ linkAgg = LinkMap(OscPool, 1..Len(OscPool), Len(OscPool))
  /\ opts \in [lockAxisName : {CLUSTER, <<"None">>}, missingLabel : {MISSING_LABEL},
               iterations : 0..MaxIter]
  /\ pairLinks = <<>> /\ pos = <<>> /\ it = 0 /\ i = 0
  /\ cats0 = <<>> /\ nodes = <<>> /\ rowPaths = <<>>
  /\ NormIdle
  /\ prior = <<>>
  /\ ends = <<>>

NextTwice == ReduceNext \/ CallAgain

SpecTwice == InitTwice /\ [][NextTwice]_vars

\* ------------------------------------------------------------------------
\* reduceCrossings on three axes whose middle axis is an entry a caller may
\* hand over: the sentinel listed once, twice, listed without a count, counted
\* without being listed, another label listed twice; links naming labels the
\* lists do not hold
\* ------------------------------------------------------------------------
MaxShapeLinks == 2

\* an axisInfo entry with the given list and counts
AxisWith(name, k, cats, totals) ==
  [axis |-> name, index |-> k, categories |-> cats, totalsByCategory |-> totals]

ShapeAxes1 ==
  {AxisWith(MEDIATION, 1, <<LX, LY>>, << <<LX, 1>>, <<LY, 1>> >>),
   AxisWith(MEDIATION, 1, <<LX, MISSING_LABEL, LY>>, << <<LX, 1>>, <<MISSING_LABEL, 1>>, <<LY, 1>> >>),
   AxisWith(MEDIATION, 1, <<MISSING_LABEL, LX, MISSING_LABEL>>, << <<MISSING_LABEL, 2>>, <<LX, 1>> >>),
   AxisWith(MEDIATION, 1, <<LX, MISSING_LABEL>>, << <<LX, 1>>, <<MISSING_LABEL, 0>> >>),
   AxisWith(MEDIATION, 1, <<LX, LY>>, << <<LX, 1>>, <<LY, 1>>, <<MISSING_LABEL, 1>> >>),
   AxisWith(MEDIATION, 1, <<LX, LY, LX>>, << <<LX, 2>>, <<LY, 1>> >>)}

ShapeAxisInfos ==
  {<<AxisOf(CLUSTER, 0, <<LA, LB>>), a1, AxisOf(INTERACTION, 2, <<LP, LQ>>)>> : a1 \in ShapeAxes1}

ShapePool ==
  << Link(CLUSTER, LA, MEDIATION, LX, 1),
     Link(CLUSTER, LB, MEDIATION, LY, 2),
     Link(CLUSTER, LA, MEDIATION, LZ, 1),
     Link(CLUSTER, LB, MEDIATION, MISSING_LABEL, 1),
     Link(MEDIATION, LX, INTERACTION, LQ, 1),
     Link(MEDIATION, LY, INTERACTION, LP, 1),
     Link(MEDIATION, LZ, INTERACTION, LP, 2),
     Link(MEDIATION, LX, INTERACTION, LR, 1) >>

ShapeLinkAggs ==
  {LinkMap(ShapePool, c, Len(ShapePool)) :
     c \in {d \in SUBSET (1..Len(ShapePool)) : Cardinality(d) <= MaxShapeLinks}}

InitShapes ==
  /\ pc = "reduce"
  /\ axes = <<>> /\ rows = <<>>
  /\ axisInfo \in ShapeAxisInfos
  /\ linkAgg \in ShapeLinkAggs
  /\ opts \in [lockAxisName : {CLUSTER, <<"None">>}, missingLabel : MissingLabels,
               iterations : {1}]
  /\ pairLinks = <<>> /\ pos = <<>> /\ it = 0 /\ i = 0
  /\ cats0 = <<>> /\ nodes = <<>> /\ rowPaths = <<>>
  /\ NormIdle
  /\ prior = <<>>
  /\ ends = <<>>

SpecShapes == InitShapes /\ [][ReduceNext]_vars

\* ========================================================================
\* Properties
\* ========================================================================
Last(s) == s[Len(s)]

Built == pc \notin {"preprocess", "norm", "normed"}

Called == pc \in {"forward", "backward", "reduced"}

NoDuplicates(s) == \A x, y \in 1..Len(s) : s[x] = s[y] => x = y

\* the reorder the forward sweep would apply to axis k (0-based) in this state
ForwardReorder(k) ==
  applyReorder(axisInfo[k + 1], PosOf(axisInfo[k + 1].categories),
               scoresFromPrev(pairLinks, [x \in 1..Len(axisInfo) |-> PosOf(axisInfo[x].categories)], k),
               opts.missingLabel)

\* C1: on every axis of the data set whose sentinel count is nonzero, the
\* sentinel is the last category: in the initial order preprocess builds,
\* after every applyReorder of every sweep, and after the whole run,
\* whatever score the sentinel gets.
C1_SentinelLast ==
  Built =>
    \A k \in 1..Len(axisInfo) :
      MapGetOr0(axisInfo[k].totalsByCategory, MISSING_LABEL) > 0
        => /\ axisInfo[k].categories # <<>>
           /\ Last(axisInfo[k].categories) = MISSING_LABEL

\* the forward sweep has just reordered the middle axis, on which the
\* sentinel scored strictly below the category now listed first
C1_Witness ==
  /\ pc = "backward" /\ Len(axisInfo) = 3 /\ i = 1
  /\ LET sc == scoresFromPrev(pairLinks, pos, 1)
         cats == axisInfo[2].categories
     IN /\ Len(cats) >= 2
        /\ MISSING_LABEL \in DOMAIN sc /\ cats[1] \in DOMAIN sc
        /\ ScoreCmp(sc[MISSING_LABEL], sc[cats[1]]) < 0
        /\ Last(cats) = MISSING_LABEL

\* C2: the axis named lockAxisName keeps its category list, element by
\* element, at every step of every sweep and at the end of reduceCrossings,
\* whatever the weights are.
C2_LockedAxisFrozen ==
  Called =>
    \A k \in 1..Len(axisInfo) :
      axisInfo[k].axis = opts.lockAxisName => axisInfo[k].categories = cats0[k]

\* the run is over, ran at least one iteration, and the forward sweep's
\* scores would have reordered the locked middle axis
C2_Witness ==
  /\ pc = "reduced" /\ Len(axisInfo) = 3 /\ it >= 1
  /\ opts.lockAxisName = MEDIATION
  /\ ForwardReorder(1) # axisInfo[2].categories

\* C3: every axis's category list holds exactly the distinct normalised
\* labels of the rows on that axis, each once, initially and after every
\* reorder step.
C3_CategoriesAreObservedLabels ==
  Built =>
    \A k \in 1..Len(axisInfo) :
      /\ NoDuplicates(axisInfo[k].categories)
      /\ Elems(axisInfo[k].categories)
           = {normLabel(axes[k], Field(axes, rows[r], axes[k])) : r \in 1..Len(rows)}

\* the input of C4: three axes, the first locked and listing A before B, the
\* middle one listing X and Y, and between the first two axes positive
\* accumulated weight on A -> X and B -> Y only
C4_Scenario ==
  /\ Len(axisInfo) = 3
  /\ lockPos(axisInfo, opts) = 0
  /\ cats0[1] = <<LA, LB>>
  /\ cats0[2] \in {<<LX, LY>>, <<LY, LX>>}
  /\ {e \in DOMAIN pairLinks[1] : pairLinks[1][e] > 0} = {<<LA, LX>>, <<LB, LY>>}

\* no positive accumulated weight between the middle and the third axis
C4_NoWeightBeyond == {e \in DOMAIN pairLinks[2] : pairLinks[2][e] > 0} = {}

\* C4 as stated: on such an input the middle axis is [X, Y] after
\* reduceCrossings with one or more iterations.
C4_MiddleAxisFollowsPreference ==
  (pc = "reduced" /\ C4_Scenario /\ iters(opts) >= 1)
    => axisInfo[2].categories = <<LX, LY>>

\* C4 amended: on such an input the middle axis is [X, Y] right after every
\* forward-sweep reorder of it, and it is [X, Y] after reduceCrossings with
\* one or more iterations when no positive weight links the middle axis to
\* the third.
C4_PreferenceWithoutPull ==
  /\ (pc = "reduced" /\ C4_Scenario /\ C4_NoWeightBeyond /\ iters(opts) >= 1)
       => axisInfo[2].categories = <<LX, LY>>
  /\ (pc = "forward" /\ i = 2 /\ C4_Scenario)
       => axisInfo[2].categories = <<LX, LY>>

C4_Witness ==
  /\ pc = "reduced" /\ C4_Scenario /\ C4_NoWeightBeyond /\ iters(opts) >= 1
  /\ cats0[2] = <<LY, LX>>
  /\ axisInfo[2].categories = <<LX, LY>>

\* C5: with two axes or fewer, reduceCrossings returns with every category
\* list as it was, whatever the links and options.
C5_FewAxesUnchanged ==
  (Called /\ Len(axisInfo) <= 2)
    => pc = "reduced" /\ Categories(axisInfo) = cats0

\* two axes, one iteration or more asked for, and a forward sweep would
\* have reordered the second axis
C5_Witness ==
  /\ pc = "reduced" /\ Len(axisInfo) = 2 /\ iters(opts) >= 1
  /\ ~isLocked(axisInfo, opts, 1)
  /\ ForwardReorder(1) # axisInfo[2].categories

\* C6: with iterations = 0, reduceCrossings returns with every category list
\* as it was.
C6_ZeroIterationsNoOp ==
  (Called /\ opts.iterations = 0)
    => pc = "reduced" /\ Categories(axisInfo) = cats0

\* three axes, iterations = 0, and a forward sweep would have reordered the
\* middle axis
C6_Witness ==
  /\ pc = "reduced" /\ Len(axisInfo) = 3 /\ opts.iterations = 0
  /\ ~isLocked(axisInfo, opts, 1)
  /\ ForwardReorder(1) # axisInfo[2].categories

\* C7: for every row and axis, the point render.js puts on the row's path is
\* the point of the node preprocess counted the row under: the label looked
\* up is the label normLabel gives, and the lookup finds the node.
C7_RenderLooksUpNormLabel ==
  pc = "done" =>
    \A r \in 1..Len(rows) : \A a \in 1..Len(axes) :
      rowPaths[r][a] = nodeId(axes[a], normLabel(axes[a], Field(axes, rows[r], axes[a])))

\* the index n of a label DC<n>; -1 for any other label
IndexOfDC(label) ==
  IF Len(label) >= 3 /\ label[1] = "D" /\ label[2] = "C" /\ AllDigits(SubSeq(label, 3, Len(label)))
  THEN NumberOf(SubSeq(label, 3, Len(label)))
  ELSE -1

\* the raw value is a legacy C<n> on the cluster axis and has been normalised
LegacyNormed == pc = "normed" /\ axisIn = CLUSTER /\ MatchC(Trim(rawIn))

LegacyN == NumberOf(SubSeq(Trim(rawIn), 2, Len(Trim(rawIn))))

Canonical(label) ==
  /\ IndexOfDC(label) >= 0
  /\ Len(label) = 3 \/ label[3] # "0"

RawOf(r, k) == Field(axes, rows[r], axes[k])

LabelOf(r, k) == normLabel(axes[k], RawOf(r, k))

\* absent, empty or whitespace-only
Blank(raw) == raw = UNDEFINED \/ Trim(raw) = <<>>

RowsLabelled(k, label) == {r \in 1..Len(rows) : LabelOf(r, k) = label}

RowsLinking(k, s, t) == {r \in 1..Len(rows) : LabelOf(r, k) = s /\ LabelOf(r, k + 1) = t}

\* the link entries from label s on axis k to label t on axis k + 1
LinksBetween(k, s, t) ==
  {x \in 1..Len(linkAgg) : /\ linkAgg[x][2].source = nodeId(axes[k], s)
                           /\ linkAgg[x][2].target = nodeId(axes[k + 1], t)}

\* C11: a row whose raw value on an axis is absent, empty or whitespace-only
\* gets the label "Missing" there, is counted under the sentinel of that axis,
\* and has a link from the sentinel to its label on the next axis and a link
\* from its label on the previous axis to the sentinel.
C11_BlankIsSentinel ==
  Built =>
    \A k \in 1..Len(axes) : \A r \in 1..Len(rows) :
      Blank(RawOf(r, k)) =>
        /\ LabelOf(r, k) = MISSING_LABEL
        /\ MapGetOr0(axisInfo[k].totalsByCategory, MISSING_LABEL)
             = Cardinality(RowsLabelled(k, MISSING_LABEL))
        /\ k < Len(axes) => LinksBetween(k, MISSING_LABEL, LabelOf(r, k + 1)) # {}
        /\ k > 1 => LinksBetween(k - 1, LabelOf(r, k - 1), MISSING_LABEL) # {}

\* C12: for every adjacent axis pair, every pair of labels some row exhibits
\* has exactly one link, whose weight is the number of rows exhibiting it,
\* and every link is a pair some row exhibits.
C12_WeightsAreRowCounts ==
  Built =>
    \A k \in 1..(Len(axes) - 1) :
      /\ \A r \in 1..Len(rows) :
           LET hits == LinksBetween(k, LabelOf(r, k), LabelOf(r, k + 1)) IN
           /\ Cardinality(hits) = 1
           /\ \A x \in hits :
                linkAgg[x][2].value
                  = Cardinality(RowsLinking(k, LabelOf(r, k), LabelOf(r, k + 1)))
      /\ \A x \in 1..Len(linkAgg) :
           \E q \in 1..(Len(axes) - 1) : \E r \in 1..Len(rows) :
             x \in LinksBetween(q, LabelOf(r, q), LabelOf(r, q + 1))

\* the labels the rows have on axis k
Observed(k) == {LabelOf(r, k) : r \in 1..Len(rows)}

\* C13: on every axis, the count totalsByCategory stores for a label is the
\* number of rows whose normalised value on that axis is the label.
C13_TotalsAreRowCounts ==
  Built =>
    \A k \in 1..Len(axisInfo) :
      \A label \in Observed(k) \cup Elems(MapKeys(axisInfo[k].totalsByCategory)) :
        MapGetOr0(axisInfo[k].totalsByCategory, label) = Cardinality(RowsLabelled(k, label))

\* s without the sentinel
WithoutSentinel(s) == Filter(s, Elems(s) \ {MISSING_LABEL})

\* s ends with the sentinel exactly when the sentinel occurs on axis k, and
\* holds it nowhere else
SentinelLastIffPresent(k, s) ==
  s = IF MISSING_LABEL \in Observed(k)
      THEN Append(WithoutSentinel(s), MISSING_LABEL)
      ELSE WithoutSentinel(s)

\* C14: on every axis other than the cluster axis, the initial category list
\* is the observed non-sentinel labels in non-increasing order of their
\* number of rows, then the sentinel iff it occurs on the axis.
C14_InitialOrderByCount ==
  pc = "reduce" =>
    \A k \in 1..Len(axisInfo) :
      axes[k] # CLUSTER =>
        LET cats == axisInfo[k].categories
            body == WithoutSentinel(cats)
        IN /\ Elems(body) = Observed(k) \ {MISSING_LABEL}
           /\ \A x, y \in 1..Len(body) :
                x < y => Cardinality(RowsLabelled(k, body[x]))
                           >= Cardinality(RowsLabelled(k, body[y]))
           /\ SentinelLastIffPresent(k, cats)

\* the rank of a cluster label's group: canonical DC1..DC6, other DC<n>,
\* other labels, the sentinel
ClusterGroup(label) ==
  IF label = MISSING_LABEL THEN 4
  ELSE IF label \in Elems(SEQ_DC) THEN 1
  ELSE IF IndexOfDC(label) >= 0 THEN 2
  ELSE 3

\* a comes strictly before b in lexicographic order
RECURSIVE LexBefore(_, _)
LexBefore(a, b) ==
  IF b = <<>> THEN FALSE
  ELSE IF a = <<>> THEN TRUE
  ELSE IF Head(a) = Head(b) THEN LexBefore(Tail(a), Tail(b))
  ELSE Rank(Head(a)) < Rank(Head(b))

\* C15: the cluster axis's category list, initially and at the end, is the
\* observed labels, each once: the canonical DC1..DC6 in numeric order, then
\* the other DC<n> labels in ascending numeric order, then the remaining
\* labels in lexicographic order, then the sentinel iff it occurs.
C15_ClusterOrder ==
  Built =>
    \A k \in 1..Len(axisInfo) :
      axes[k] = CLUSTER =>
        LET cats == axisInfo[k].categories IN
        /\ Elems(cats) = Observed(k)
        /\ \A x, y \in 1..Len(cats) :
             x < y =>
               /\ ClusterGroup(cats[x]) <= ClusterGroup(cats[y])
               /\ (ClusterGroup(cats[x]) = ClusterGroup(cats[y]) /\ ClusterGroup(cats[x]) <= 2)
                    => IndexOfDC(cats[x]) < IndexOfDC(cats[y])
               /\ (ClusterGroup(cats[x]) = 3 /\ ClusterGroup(cats[y]) = 3)
                    => LexBefore(cats[x], cats[y])
        /\ SentinelLastIffPresent(k, cats)

\* the link entries whose source axis is the axis at position q and whose
\* target axis is the axis at position q + 1 (1-based), from src to tgt
AdjacentEntries(q, src, tgt) ==
  {x \in 1..Len(linkAgg) :
     /\ q + 1 <= Len(axisInfo)
     /\ splitNodeId(linkAgg[x][2].source) = [axis |-> axisInfo[q].axis, label |-> src]
     /\ splitNodeId(linkAgg[x][2].target) = [axis |-> axisInfo[q + 1].axis, label |-> tgt]}

\* the entry names an axis that is no axis of axisInfo, or two axes that are
\* not at positions p, p + 1
SkippedEntry(x) ==
  \A q \in 1..Len(axisInfo) :
    ~(/\ q + 1 <= Len(axisInfo)
      /\ splitNodeId(linkAgg[x][2].source).axis = axisInfo[q].axis
      /\ splitNodeId(linkAgg[x][2].target).axis = axisInfo[q + 1].axis)

\* C16: pairLinks[p] holds exactly the label pairs of the entries that go
\* from the axis at position p to the axis at position p + 1, each with the
\* sum of those entries' values; entries naming an unknown axis, non-adjacent
\* axes or a backward pair leave no trace in pairLinks, which is all the
\* scores and orderings are computed from.
C16_OnlyAdjacentAccumulate ==
  Called =>
    /\ Len(pairLinks) = (IF Len(axisInfo) = 0 THEN 0 ELSE Len(axisInfo) - 1)
    /\ \A q \in 1..Len(pairLinks) :
         /\ \A e \in DOMAIN pairLinks[q] :
              /\ AdjacentEntries(q, e[1], e[2]) # {}
              /\ pairLinks[q][e]
                   = SumOver(AdjacentEntries(q, e[1], e[2]),
                             [x \in 1..Len(linkAgg) |-> linkAgg[x][2].value])
         /\ \A x \in 1..Len(linkAgg) :
              ~SkippedEntry(x) /\ splitNodeId(linkAgg[x][2].source).axis = axisInfo[q].axis
                => <<splitNodeId(linkAgg[x][2].source).label,
                     splitNodeId(linkAgg[x][2].target).label>> \in DOMAIN pairLinks[q]

\* the run is over, on three axes, with one entry accumulated and one entry
\* between the first and the third axis skipped
C16_Witness ==
  /\ pc = "reduced" /\ Len(axisInfo) = 3 /\ it >= 1
  /\ Len(linkAgg) = 2
  /\ \E x \in 1..2 : /\ SkippedEntry(x)
                     /\ splitNodeId(linkAgg[x][2].source).axis = CLUSTER
                     /\ splitNodeId(linkAgg[x][2].target).axis = INTERACTION
  /\ \E x \in 1..2 : ~SkippedEntry(x)
  /\ Cardinality(DOMAIN pairLinks[1]) + Cardinality(DOMAIN pairLinks[2]) = 1

\* one step of the sweeps: the forward sweep visits the axes 1 .. n - 1 in
\* order and hands over to the backward sweep, which visits n - 2 .. 0; the
\* counter advances when the backward sweep ends, and the loop is left
\* exactly when the counter reaches the iteration count
SweepOrder ==
  /\ pc = "forward" =>
       /\ it' = it
       /\ \/ pc' = "forward" /\ i' = i + 1 /\ i' <= Len(axisInfo) - 1
          \/ pc' = "backward" /\ i = Len(axisInfo) - 1 /\ i' = Len(axisInfo) - 2
  /\ pc = "backward" =>
       \/ pc' = "backward" /\ i' = i - 1 /\ i' >= 0 /\ it' = it
       \/ /\ i = 0 /\ it' = it + 1
          /\ \/ pc' = "forward" /\ i' = 1 /\ it' < iters(opts)
             \/ pc' = "reduced" /\ it' = iters(opts)

\* C18 as stated: on every input reduceCrossings terminates, having run
\* exactly N iterations of one forward and one backward sweep each.
C18_ExactlyNIterations ==
  /\ <>(pc = "reduced")
  /\ [](pc = "reduced" => it = iters(opts))
  /\ [][SweepOrder]_vars

\* C18 amended: on every input reduceCrossings terminates; on three axes or
\* more it has then run exactly N iterations of one forward and one backward
\* sweep each, whether or not the lists still change; on two axes or fewer
\* it has run none.
C18_ExactlyNIterationsOnThreeAxes ==
  /\ <>(pc = "reduced")
  /\ [](pc = "reduced" => it = (IF Len(axisInfo) >= 3 THEN iters(opts) ELSE 0))
  /\ [][SweepOrder]_vars

\* two iterations were asked for and run on three axes although every list
\* is as it was at the call
C18_Witness ==
  /\ pc = "reduced" /\ Len(axisInfo) = 3
  /\ opts.iterations = 2 /\ it = 2
  /\ lockPos(axisInfo, opts) = 0
  /\ Categories(axisInfo) = cats0
  /\ DOMAIN pairLinks[1] # {}

\* C19: on zero rows preprocess goes through every step to its end, every
\* axis has an empty category list from the start to the end of
\* reduceCrossings, and there are no links and no nodes.
C19_EmptyDegradesToNoOp ==
  rows = <<>> =>
    /\ pc \in {"preprocess", "reduce", "forward", "backward", "reduced", "nodes"}
         => ENABLED Next
    /\ Built =>
         /\ Len(axisInfo) = Len(axes)
         /\ \A k \in 1..Len(axisInfo) : axisInfo[k].categories = <<>>
         /\ linkAgg = <<>>
         /\ pc \in {"nodes", "done"} => nodes = <<>>

\* zero rows on three axes: reduceCrossings ran its six iterations and
\* preprocess returned
C19_Witness ==
  /\ pc = "done" /\ rows = <<>> /\ Len(axes) = 3
  /\ it = 6 /\ nodes = <<>> /\ Len(axisInfo) = 3

\* C20: the nodes are one node per axis and category of the axis's final
\* list and nothing else; the node's order is the category's index in that
\* list and its value the count totalsByCategory stores for it.
C20_NodesFollowFinalOrder ==
  pc \in {"nodes", "done"} =>
    /\ Len(nodes) = SumOver(1..Len(axisInfo),
                            [k \in 1..Len(axisInfo) |-> Len(axisInfo[k].categories)])
    /\ \A k \in 1..Len(axisInfo) : \A x \in 1..Len(axisInfo[k].categories) :
         LET label == axisInfo[k].categories[x]
             hits == {n \in 1..Len(nodes) : nodes[n].axis = axisInfo[k].axis
                                            /\ nodes[n].label = label}
         IN /\ Cardinality(hits) = 1
            /\ \A n \in hits :
                 /\ nodes[n].order = x - 1
                 /\ nodes[n].value = MapGetOr0(axisInfo[k].totalsByCategory, label)
                 /\ nodes[n].index = axisInfo[k].index
                 /\ nodes[n].id = nodeId(axisInfo[k].axis, label)

\* the nodes are built and the middle axis's final list is not the list
\* reduceCrossings was given
C20_Witness ==
  /\ pc = "nodes" /\ Len(axisInfo) = 3
  /\ axisInfo[2].categories # cats0[2]
  /\ \E n \in 1..Len(nodes) :
       /\ nodes[n].axis = MEDIATION /\ nodes[n].order = 0
       /\ nodes[n].label # cats0[2][1]

IndexIn(list, lab) == (CHOOSE k \in 1..Len(list) : list[k] = lab) - 1

\* the aggregated weight between label s of axis q - 1 and label t of axis q
Weight(q, s, t) ==
  IF <<s, t>> \in DOMAIN pairLinks[q] THEN pairLinks[q][<<s, t>>] ELSE 0

\* every label of the call: the listed ones and the ones the links name
AllLabels ==
  UNION {Elems(axisInfo[k].categories) : k \in 1..Len(axisInfo)}
  \cup UNION {{e[1], e[2]} : e \in UNION {DOMAIN pairLinks[q] : q \in 1..Len(pairLinks)}}

\* the scores the sweep step about to run computes
StepScores ==
  IF pc = "forward" THEN scoresFromPrev(pairLinks, pos, i)
  ELSE scoresFromNext(pairLinks, pos, i, Len(axisInfo))

\* the category list of the axis those scores are computed from
NeighbourList ==
  IF pc = "forward" THEN axisInfo[i].categories ELSE axisInfo[i + 2].categories

\* the aggregated weight between a label of the step's axis and a label of its neighbour
NeighbourWeight(lab, n) ==
  IF pc = "forward" THEN Weight(i, n, lab) ELSE Weight(i + 1, lab, n)

\* C21: in a forward sweep the score of a label t of axis i is the weighted
\* mean, over exactly the labels s of axis i - 1 that are listed there and
\* have a positive aggregated weight to t, of the index of s in that list,
\* weighted by the aggregated weight; in a backward sweep the same over the
\* labels of axis i + 1; a label with no such neighbour has no score.
C21_ScoresAreWeightedMeans ==
  (pc \in {"forward", "backward"}) =>
    \A lab \in AllLabels :
      LET N == {n \in Elems(NeighbourList) : NeighbourWeight(lab, n) > 0}
          sumW == SumOver(N, [n \in N |-> NeighbourWeight(lab, n)])
          sumWP == SumOver(N, [n \in N |-> NeighbourWeight(lab, n) * IndexIn(NeighbourList, n)])
      IN IF N = {} THEN lab \notin DOMAIN StepScores
         ELSE /\ lab \in DOMAIN StepScores
              /\ StepScores[lab][1] * sumW = sumWP * StepScores[lab][2]

\* a forward step on the middle axis where X is pulled by A with weight 1 and
\* by B with weight 2, so that its score is 2/3, and Y has no score
C21_Witness ==
  /\ pc = "forward" /\ i = 1
  /\ Weight(1, LA, LX) = 1 /\ Weight(1, LB, LX) = 2
  /\ LX \in DOMAIN StepScores /\ StepScores[LX] = <<2, 3>>
  /\ LY \in Elems(axisInfo[2].categories) /\ LY \notin DOMAIN StepScores

\* ------------------------------------------------------------------------
\* The order a reorder step leaves
\* ------------------------------------------------------------------------
\* a list without the sentinel of the call
NonSentinel(list) == Filter(list, Elems(list) \ {opts.missingLabel})

\* the labels of a list with the number of times each occurs
BagOf(list) == [lab \in Elems(list) |-> Cardinality({k \in 1..Len(list) : list[k] = lab})]

\* label u stands before label v in a list of distinct labels
Before(list, u, v) == IndexIn(list, u) < IndexIn(list, v)

\* scores s and t as fractions: s < t, s = t
ScoreLess(s, t) == s[1] * t[2] < t[1] * s[2]
ScoreEq(s, t) == s[1] * t[2] = t[1] * s[2]

\* now lists the labels of was: the scored ones first, ascending by score,
\* then the unscored ones; equal scores and unscored labels in the order of was
SortedByRule(was, now, scores) ==
  /\ BagOf(now) = BagOf(was)
  /\ \A a, b \in 1..Len(now) :
       a < b =>
         LET u == now[a]
             v == now[b]
         IN /\ ~(u \notin DOMAIN scores /\ v \in DOMAIN scores)
            /\ (u \in DOMAIN scores /\ v \in DOMAIN scores) => ~ScoreLess(scores[v], scores[u])
            /\ (u \notin DOMAIN scores /\ v \notin DOMAIN scores) => Before(was, u, v)
            /\ (u \in DOMAIN scores /\ v \in DOMAIN scores /\ ScoreEq(scores[u], scores[v]))
                 => Before(was, u, v)

\* the sweep step about to run reorders its axis
StepReorders == pc \in {"forward", "backward"} /\ ~isLocked(axisInfo, opts, i)

\* C22: each applyReorder call leaves the non-sentinel labels of its axis as:
\* all scored labels in ascending score order, then all unscored labels;
\* labels with equal scores, and unscored labels, keep the relative order they
\* had immediately before the call.
C22_ReorderRule ==
  [][StepReorders =>
       SortedByRule(NonSentinel(axisInfo[i + 1].categories),
                    NonSentinel(axisInfo'[i + 1].categories), StepScores)]_vars

\* the middle axis listed [Z, Y, X]; X and Y are pulled by A alone and tie at
\* score 0, Z has no score: the first forward step has left [Y, X, Z]
C22_Witness ==
  /\ pc = "forward" /\ i = 2 /\ it = 0
  /\ cats0[2] = <<LZ, LY, LX>>
  /\ DOMAIN pairLinks[1] = {<<LA, LX>>, <<LA, LY>>}
  /\ axisInfo[2].categories = <<LY, LX, LZ>>

\* ------------------------------------------------------------------------
\* Link entries that weigh nothing
\* ------------------------------------------------------------------------
\* the axisInfo the call was given
AtCall == [k \in 1..Len(axisInfo) |-> [axisInfo[k] EXCEPT !.categories = cats0[k]]]

\* the link collection without its entries of value <= 0
PositiveEntries == Filter(linkAgg, {e \in Elems(linkAgg) : e[2].value > 0})

\* the weight accumulated for the pair of labels a link entry names
PairWeightOf(d) ==
  AccWeight(AtCall, linkAgg, Len(linkAgg), LinkPairPos(AtCall, d),
            splitNodeId(d.source).label, splitNodeId(d.target).label)

\* the link collection without the entries of the pairs of labels whose
\* accumulated weight is <= 0
PositivePairs ==
  Filter(linkAgg, {e \in Elems(linkAgg) : LinkPairPos(AtCall, e[2]) = -1 \/ PairWeightOf(e[2]) > 0})

\* C23 as stated: the orderings a call leaves are those it would leave had
\* every link entry with value <= 0 been removed from the link set.
C23_AsIfNonPositiveEntriesRemoved ==
  (pc = "reduced") =>
    Categories(axisInfo) = Categories(reorderBarycentricAxisInfo(AtCall, PositiveEntries, opts))

\* C23, amended: the orderings a call leaves are those it would leave had the
\* entries of every pair of labels whose accumulated weight (the sum of the
\* values of its entries) is <= 0 been removed from the link set.
C23_AsIfNonPositivePairsRemoved ==
  (pc = "reduced") =>
    Categories(axisInfo) = Categories(reorderBarycentricAxisInfo(AtCall, PositivePairs, opts))

\* a call whose links weigh A -> X at -1 and B -> Y at 1 has moved Y before X
C23_Witness ==
  /\ pc = "reduced" /\ it >= 1
  /\ Weight(1, LA, LX) = -1 /\ Weight(1, LB, LY) = 1
  /\ cats0[2] = <<LX, LY>>
  /\ axisInfo[2].categories = <<LY, LX>>

\* the function of the call's arguments returns what the call's steps leave
ReducerAgrees ==
  (pc = "reduced") =>
    Categories(axisInfo) = Categories(reorderBarycentricAxisInfo(AtCall, linkAgg, opts))

\* ------------------------------------------------------------------------
\* The position lookups during the sweeps
\* ------------------------------------------------------------------------
\* the lookup maps exactly the labels of the list, each to its index
LooksUp(lookup, list) ==
  /\ DOMAIN lookup = Elems(list)
  /\ \A k \in 1..Len(list) : lookup[list[k]] = k - 1

\* the axis (1-based) whose positions the sweep step about to run reads
NeighbourAxis == IF pc = "forward" THEN i ELSE i + 2

\* C24: the sweeps are sequential, the forward sweep over the axes 1 .. last
\* in increasing order, then the backward sweep over last - 1 .. 0 in
\* decreasing order; and whenever the scores of an axis are computed, the
\* position lookup of the neighbouring axis is the index of each label in
\* that axis's category list as its most recent reorder left it.
C24_SequentialSweepsCurrentPositions ==
  /\ [][SweepOrder]_vars
  /\ [](pc \in {"forward", "backward"} =>
          LooksUp(pos[NeighbourAxis], axisInfo[NeighbourAxis].categories))

\* the forward sweep has just moved Y before X on the middle axis and is
\* about to score the third axis from the middle axis's new positions
C24_Witness ==
  /\ pc = "forward" /\ i = 2
  /\ cats0[2] = <<LX, LY, LZ>>
  /\ axisInfo[2].categories = <<LY, LX, LZ>>
  /\ pos[2][LY] = 0 /\ pos[2][LX] = 1 /\ pos[2][LZ] = 2
  /\ DOMAIN pairLinks[2] # {}

\* ------------------------------------------------------------------------
\* Iterations that never settle
\* ------------------------------------------------------------------------
\* the axisInfo of the call with the given category lists
WithCategories(cats) == [k \in 1..Len(axisInfo) |-> [axisInfo[k] EXCEPT !.categories = cats[k]]]

\* the category lists one full iteration makes of the given ones
OneMoreIteration(cats) ==
  Categories(backwardSweep(forwardSweep(WithCategories(cats), pairLinks, opts, 1),
                           pairLinks, opts, Len(axisInfo) - 2))

\* C25: there are inputs with three axes on which one more full iteration
\* changes the category order of an unlocked axis after N iterations, for
\* every N >= 1: the lists at the end of an iteration are a function of the
\* lists at its start, they differ from them after every iteration, and they
\* come back after four iterations, so the orderings cycle.
C25_Oscillates ==
  /\ \A n \in 1..Len(ends) :
       ends[n] = OneMoreIteration(IF n = 1 THEN cats0 ELSE ends[n - 1])
  /\ \A n \in 1..(Len(ends) - 1) :
       /\ ends[n + 1] # ends[n]
       /\ \E k \in 1..Len(axisInfo) : ~isLocked(axisInfo, opts, k - 1) /\ ends[n + 1][k] # ends[n][k]
  /\ \A n \in 1..(Len(ends) - 4) : ends[n + 4] = ends[n]

\* six iterations have run; the fifth ended where the first did, the sixth
\* where the second did, and the first four ended in four different orderings
C25_Witness ==
  /\ pc = "reduced" /\ Len(ends) >= 6
  /\ ends[5] = ends[1] /\ ends[6] = ends[2]
  /\ Cardinality({ends[n] : n \in 1..4}) = 4

\* ------------------------------------------------------------------------
\* Flow through the links preprocess builds
\* ------------------------------------------------------------------------
\* the link entries that leave label c of axis k (1-based) for axis k + 1
LinksLeaving(k, c) ==
  {x \in 1..Len(linkAgg) : /\ linkAgg[x][2].source = nodeId(axisInfo[k].axis, c)
                           /\ splitNodeId(linkAgg[x][2].target).axis = axisInfo[k + 1].axis}

\* the link entries that enter label d of axis k (1-based) from axis k - 1
LinksEntering(k, d) ==
  {x \in 1..Len(linkAgg) : /\ linkAgg[x][2].target = nodeId(axisInfo[k].axis, d)
                           /\ splitNodeId(linkAgg[x][2].source).axis = axisInfo[k - 1].axis}

LinkValues(X) == SumOver(X, [x \in X |-> linkAgg[x][2].value])

\* C26: in what preprocess builds, for every adjacent pair of axes the link
\* weights leaving a category of the first axis sum to the category's count
\* and the link weights entering a category of the second axis sum to that
\* category's count; and in every sweep step that reorders an axis every
\* category of the axis has a score.
C26_FlowConservation ==
  /\ Built =>
       \A k \in 1..(Len(axisInfo) - 1) :
         /\ \A c \in Elems(axisInfo[k].categories) :
              LinkValues(LinksLeaving(k, c)) = MapGetOr0(axisInfo[k].totalsByCategory, c)
         /\ \A d \in Elems(axisInfo[k + 1].categories) :
              LinkValues(LinksEntering(k + 1, d)) = MapGetOr0(axisInfo[k + 1].totalsByCategory, d)
  /\ StepReorders =>
       \A c \in Elems(axisInfo[i + 1].categories) : c \in DOMAIN StepScores

\* ------------------------------------------------------------------------
\* Two calls in a row
\* ------------------------------------------------------------------------
\* C27: a call with N iterations followed by a call with M iterations on the
\* lists the first one left, with the same links and options, leaves the
\* category lists a single call with N + M iterations leaves.
C27_TwoCallsAsOne ==
  (pc = "reduced" /\ Len(prior) = 1) =>
    Categories(axisInfo)
      = Categories(reorderBarycentricAxisInfo(
                     WithCategories(prior[1].first), linkAgg,
                     [opts EXCEPT !.iterations = prior[1].n + opts.iterations]))

\* both calls ran one iteration and both changed the lists
C27_Witness ==
  /\ pc = "reduced" /\ Len(prior) = 1
  /\ prior[1].n = 1 /\ opts.iterations = 1 /\ it = 1
  /\ cats0 # prior[1].first
  /\ Categories(axisInfo) # cats0

\* ------------------------------------------------------------------------
\* Which axes a call leaves alone
\* ------------------------------------------------------------------------
\* the sweep step about to run leaves every list as it is
StepSkips == axisInfo' = axisInfo

\* the sweep step about to run re-sorts the list of its axis and no other
StepSorts ==
  /\ SortedByRule(NonSentinel(axisInfo[i + 1].categories),
                  NonSentinel(axisInfo'[i + 1].categories), StepScores)
  /\ \A k \in 1..Len(axisInfo) : k # i + 1 => axisInfo'[k] = axisInfo[k]

\* C28: on three or more axes, a sweep step skips its axis exactly when the
\* axis is named lockAxisName and re-sorts it otherwise; when lockAxisName
\* names no axis no step is skipped, and the last step of every backward
\* sweep re-sorts the first axis.
C28_ExemptIffNamed ==
  [][(pc \in {"forward", "backward"} /\ Len(axisInfo) >= 3) =>
       /\ IF axisInfo[i + 1].axis = opts.lockAxisName THEN StepSkips ELSE StepSorts
       /\ (\A k \in 1..Len(axisInfo) : axisInfo[k].axis # opts.lockAxisName) =>
            /\ StepSorts
            /\ it' = it + 1 => (pc = "backward" /\ i = 0)]_vars

\* lockAxisName names no axis and the call has left the first axis [B, A],
\* which it was given as [A, B]
C28_Witness ==
  /\ pc = "reduced" /\ Len(axisInfo) = 3 /\ it >= 1
  /\ \A k \in 1..Len(axisInfo) : axisInfo[k].axis # opts.lockAxisName
  /\ cats0[1] = <<LA, LB>>
  /\ axisInfo[1].categories = <<LB, LA>>

\* ------------------------------------------------------------------------
\* The labels a call keeps
\* ------------------------------------------------------------------------
\* how often the sentinel of the call stands in a list
SentinelCount(list) == Cardinality({k \in 1..Len(list) : list[k] = opts.missingLabel})

\* the count the axis stores for the sentinel of the call
SentinelTotal(a) == MapGetOr0(a.totalsByCategory, opts.missingLabel)

\* every list is a permutation of the list the call was given
ListsPermuted == \A k \in 1..Len(axisInfo) : BagOf(axisInfo[k].categories) = BagOf(cats0[k])

\* no list holds a label the call was not given in it, but for the sentinel
\* where it has a count
NoLabelFromLinks ==
  \A k \in 1..Len(axisInfo) :
    Elems(axisInfo[k].categories)
      \subseteq Elems(cats0[k]) \cup (IF SentinelTotal(axisInfo[k]) > 0 THEN {opts.missingLabel} ELSE {})

\* C29 as stated: if on every axis handed to reduceCrossings the sentinel is
\* in the category list exactly when its count is > 0, then after every
\* reorder step every list is a permutation of the list the call was given;
\* and link entries naming labels a list does not hold add no label to it.
C29_PermutationIfSentinelListedIffCounted ==
  Called =>
    /\ (\A k \in 1..Len(axisInfo) :
          SentinelCount(cats0[k]) > 0 <=> SentinelTotal(axisInfo[k]) > 0) => ListsPermuted
    /\ NoLabelFromLinks

\* C29, amended: if on every axis handed to reduceCrossings the sentinel is in
\* the category list exactly once when its count is > 0 and not at all
\* otherwise, then after every reorder step every list is a permutation of the
\* list the call was given; and link entries naming labels a list does not
\* hold add no label to it.
C29_PermutationIfSentinelOnceIffCounted ==
  Called =>
    /\ (\A k \in 1..Len(axisInfo) :
          SentinelCount(cats0[k]) = (IF SentinelTotal(axisInfo[k]) > 0 THEN 1 ELSE 0)) => ListsPermuted
    /\ NoLabelFromLinks

\* the middle axis was given as [X, Missing, Y] with a count for the sentinel,
\* the links name Z and R, which no list holds; the call has left [Y, X, Missing]
C29_Witness ==
  /\ pc = "reduced" /\ it = 1
  /\ opts.missingLabel = MISSING_LABEL
  /\ cats0[2] = <<LX, MISSING_LABEL, LY>>
  /\ axisInfo[2].categories = <<LY, LX, MISSING_LABEL>>
  /\ \E e \in DOMAIN pairLinks[1] : e[2] = LZ
  /\ LZ \notin Elems(axisInfo[2].categories)

====
